---- MODULE Spec2Model ----
(***************************************************************************)
(* HTTP Public Key Pinning database of libwget (libwget/hpkp.c).           *)
(*                                                                         *)
(* The database is a hash map from host name to an HPKP entry (created,    *)
(* max_age, include_subdomains, pins).  The module models the admission    *)
(* function __wget_hpkp_db_add, its public wrapper wget_hpkp_db_add, and   *)
(* the persistence functions wget_hpkp_db_save / wget_hpkp_db_load.        *)
(***************************************************************************)
EXTENDS Integers, Sequences, FiniteSets, Bags, TLC

(***************************************************************************)
(* Bounds of the model.                                                    *)
(***************************************************************************)
\* time(NULL) ranges over 0..MaxTime, and so does a candidate's created
MaxTime == 2
\* max_age arguments range over -1..MaxAge (time_t is signed)
MaxAge == 2
\* longest b64_pins list handed to wget_hpkp_db_add
MaxList == 3

\* SPKI digests (32 bytes each in the code, compared byte for byte)
Pins == {"A", "B", "C"}
\* host names: "a" carries the full range of candidates, "b" a single shape
Hosts == {"a", "b"}

Times == 0..MaxTime
MaxAges == (-1)..MaxAge

(***************************************************************************)
(* Return values (wget.h); all but WGET_HPKP_OK are negative.              *)
(***************************************************************************)
WGET_HPKP_OK == 0
WGET_HPKP_ERROR == -1
WGET_HPKP_ENTRY_EXPIRED == -2
WGET_HPKP_WAS_DELETED == -3
WGET_HPKP_NOT_ENOUGH_PINS == -4
WGET_HPKP_ENTRY_EXISTS == -5
WGET_HPKP_ERROR_FILE_OPEN == -6

VARIABLES
    entries,    \* hpkp_db->entries: function from the resident hosts to their entry
    now,        \* what time(NULL) returns
    call,       \* the most recent call of the API and its outcome
    file,       \* what the file system holds at the path given to save and load
    saved,      \* the store as it was when wget_hpkp_db_save last wrote or removed the file
    mutex,      \* hpkp_db->mutex: the thread that holds it, or Unlocked
    thread      \* for each thread, where it is in its call and the locals of the call

vars == <<entries, now, call, file, saved, mutex, thread>>

(***************************************************************************)
(* struct __wget_hpkp_st.  pins is the wget_vector of the entry, kept here *)
(* as the bag of its elements (the order of a vector is read by nobody but *)
(* the writer of the file, which may write any order).                     *)
(***************************************************************************)
wget_hpkp_new(host, created, max_age, include_subdomains) ==
    [host |-> host, created |-> created, max_age |-> max_age,
     include_subdomains |-> include_subdomains, pins |-> EmptyBag]

wget_vector_contains(v, elem) == BagIn(elem, v)

wget_vector_size(v) == BagCardinality(v)

\* base64 text of a digest, and the digest of a base64 text
wget_base64_encode_alloc(hash) == [b64 |-> hash]

wget_base64_decode_alloc(b64) == b64.b64

\* the mutant: the pin is added without looking for it in the vector
Mut_put_base64_spki(hpkp, b64_pubkey) ==
    [hpkp EXCEPT !.pins = @ (+) SetToBag({wget_base64_decode_alloc(b64_pubkey)})]

\* adds the decoded pin unless the vector already contains it
__wget_hpkp_db_put_base64_spki(hpkp, b64_pubkey) ==
    LET pubkey == wget_base64_decode_alloc(b64_pubkey)
    IN  IF ~wget_vector_contains(hpkp.pins, pubkey)
        THEN [hpkp EXCEPT !.pins = @ (+) SetToBag({pubkey})]
        ELSE hpkp

\* wget_vector_browse(b64_pins, __wget_hpkp_db_put_base64_spki, hpkp)
RECURSIVE PutAll(_, _)
PutAll(hpkp, b64_pins) ==
    IF b64_pins = <<>> THEN hpkp
    ELSE PutAll(__wget_hpkp_db_put_base64_spki(hpkp, Head(b64_pins)), Tail(b64_pins))

\* nonzero (TRUE) iff the pin is NOT in hpkp's vector
__wget_hpkp_contains_spki_cb(hpkp, spki) == ~wget_vector_contains(hpkp.pins, spki)

\* the mutant: the two entries the other way round
Mut_compare_spkis(hpkp1, hpkp2) ==
    \E spki \in BagToSet(hpkp2.pins) : __wget_hpkp_contains_spki_cb(hpkp1, spki)

\* browses hpkp1's pins with hpkp2 as the context of the callback: nonzero
\* (TRUE) iff some pin of hpkp1 is missing from hpkp2
__wget_hpkp_compare_spkis(hpkp1, hpkp2) ==
    \E spki \in BagToSet(hpkp1.pins) : __wget_hpkp_contains_spki_cb(hpkp2, spki)

\* wget_hashmap_get: the entry of the key, if any
wget_hashmap_contains(db, key) == key \in DOMAIN db

\* wget_hashmap_put_noalloc: insert, or replace (destroying) the entry of the key
wget_hashmap_put_noalloc(db, key, value) ==
    [h \in (DOMAIN db) \cup {key} |-> IF h = key THEN value ELSE db[h]]

\* wget_hashmap_remove: remove (destroying) the entry of the key
wget_hashmap_remove(db, key) == [h \in (DOMAIN db) \ {key} |-> db[h]]

\* what a call leaves: the map and the value returned
Result(db, retval) == [entries |-> db, retval |-> retval]

\* the mutant: an entry that expires this very second is expired already
Mut_Expired(hpkp_new, curtime) ==
    hpkp_new.max_age > 0 /\ (hpkp_new.created + hpkp_new.max_age) <= curtime

\* "Check whether entry is expired"
Expired(hpkp_new, curtime) ==
    hpkp_new.max_age > 0 /\ (hpkp_new.created + hpkp_new.max_age) < curtime

\* the mutant: "more than two public key pinnings"
Mut_EnoughPins(hpkp_new) ==
    hpkp_new.max_age # 0 /\ wget_vector_size(hpkp_new.pins) > 2

\* hpkp_new->max_age != 0 && num_pins >= 2
EnoughPins(hpkp_new) ==
    hpkp_new.max_age # 0 /\ wget_vector_size(hpkp_new.pins) >= 2

\* the mutant: both conditions are asked for
Mut_DeleteRequested(hpkp_new) ==
    hpkp_new.max_age = 0 /\ wget_vector_size(hpkp_new.pins) = 0

\* hpkp_new->max_age == 0 || num_pins == 0
DeleteRequested(hpkp_new) ==
    hpkp_new.max_age = 0 \/ wget_vector_size(hpkp_new.pins) = 0

\* the mutant: the map is written before the entries are compared
Mut_Update(db, hpkp, hpkp_new) ==
    IF /\ hpkp.created < hpkp_new.created
       /\ \/ hpkp.include_subdomains # hpkp_new.include_subdomains
          \/ hpkp.max_age # hpkp_new.max_age
          \/ __wget_hpkp_compare_spkis(hpkp, hpkp_new)
    THEN Result(wget_hashmap_put_noalloc(db, hpkp_new.host, hpkp_new), WGET_HPKP_OK)
    ELSE Result(wget_hashmap_put_noalloc(db, hpkp_new.host, hpkp_new), WGET_HPKP_ENTRY_EXISTS)

\* the mutant: the pins of the old entry are carried over into the new one
Mut_UpdateMerge(db, hpkp, hpkp_new) ==
    IF /\ hpkp.created < hpkp_new.created
       /\ \/ hpkp.include_subdomains # hpkp_new.include_subdomains
          \/ hpkp.max_age # hpkp_new.max_age
          \/ __wget_hpkp_compare_spkis(hpkp, hpkp_new)
    THEN Result(wget_hashmap_put_noalloc(db, hpkp_new.host,
                    [hpkp_new EXCEPT !.pins = SetToBag(BagToSet(@) \cup BagToSet(hpkp.pins))]),
                WGET_HPKP_OK)
    ELSE Result(db, WGET_HPKP_ENTRY_EXISTS)

\* the update branch: an entry exists and the candidate is complete
Update(db, hpkp, hpkp_new) ==
    IF /\ hpkp.created < hpkp_new.created
       /\ \/ hpkp.include_subdomains # hpkp_new.include_subdomains
          \/ hpkp.max_age # hpkp_new.max_age
          \/ __wget_hpkp_compare_spkis(hpkp, hpkp_new)
    THEN Result(wget_hashmap_put_noalloc(db, hpkp_new.host, hpkp_new), WGET_HPKP_OK)
    ELSE Result(db, WGET_HPKP_ENTRY_EXISTS)

__wget_hpkp_db_add(db, hpkp_new, excl, curtime) ==
    LET num_pins == wget_vector_size(hpkp_new.pins)
        known == wget_hashmap_contains(db, hpkp_new.host)      \* hpkp != NULL
    IN  IF Expired(hpkp_new, curtime)
        THEN Result(db, WGET_HPKP_ENTRY_EXPIRED)
        ELSE IF known /\ excl # 0
        THEN Result(db, WGET_HPKP_ENTRY_EXISTS)
        ELSE IF ~known /\ EnoughPins(hpkp_new)
        THEN Result(wget_hashmap_put_noalloc(db, hpkp_new.host, hpkp_new), WGET_HPKP_OK)
        ELSE IF known /\ EnoughPins(hpkp_new)
        THEN Update(db, db[hpkp_new.host], hpkp_new)
        ELSE IF known /\ DeleteRequested(hpkp_new)
        THEN Result(wget_hashmap_remove(db, db[hpkp_new.host].host), WGET_HPKP_WAS_DELETED)
        ELSE IF num_pins < 2
        THEN Result(db, WGET_HPKP_NOT_ENOUGH_PINS)
        ELSE Result(db, WGET_HPKP_ERROR)

(***************************************************************************)
(* The candidates handed to __wget_hpkp_db_add.                            *)
(***************************************************************************)
Candidates ==
    [host : {"a"}, created : Times, max_age : MaxAges,
     include_subdomains : {0, 1}, pins : {SetToBag(S) : S \in SUBSET Pins}]
    \cup
    [host : {"b"}, created : {0}, max_age : {0, MaxAge},
     include_subdomains : {0}, pins : {SetToBag({"A", "B"})}]

\* the lists of base64 pins of length at most n
RECURSIVE ListsUpTo(_)
ListsUpTo(n) ==
    IF n = 0 THEN {<<>>}
    ELSE LET shorter == ListsUpTo(n - 1)
         IN  shorter \cup {Append(l, wget_base64_encode_alloc(p)) : l \in shorter, p \in Pins}

\* no call is in progress and no result is pending
Idle == [op |-> "idle"]

\* no file at the path
NoFile == [kind |-> "absent"]

\* the file at the path does not come from wget_hpkp_db_save
NotSaved == [valid |-> FALSE, store |-> <<>>]

\* nobody holds the mutex
Unlocked == "unlocked"

\* the threads that call wget_hpkp_db_add, the thread that calls
\* wget_hpkp_db_save, and the thread that ends with wget_hpkp_db_deinit
Adders == {"t1", "t2"}

Saver == "s"

Main == "main"

AllThreads == Adders \cup {Saver, Main}

\* the result of a lookup that found nothing
Null == [found |-> FALSE, val |-> wget_hpkp_new("", 0, 0, 0), dangling |-> FALSE]

\* a thread that is in no call; freed records that the call has read an entry
\* after the map destroyed it
NotStarted ==
    [pc |-> "idle", hpkp_new |-> wget_hpkp_new("", 0, 0, 0),
     hpkp |-> Null, op |-> "none", before |-> Null,
     retval |-> WGET_HPKP_ERROR, todo |-> {}, snapshot |-> <<>>, fp |-> <<>>,
     written_pins |-> 0, freed |-> FALSE]

Init ==
    /\ entries = <<>>
    /\ now = 0
    /\ call = Idle
    /\ file = NoFile
    /\ saved = NotSaved
    /\ mutex = Unlocked
    /\ thread = [t \in AllThreads |-> NotStarted]

\* a call of __wget_hpkp_db_add with candidate hpkp_new
Admit(hpkp_new, excl) ==
    LET r == __wget_hpkp_db_add(entries, hpkp_new, excl, now)
    IN  /\ call = Idle
        /\ entries' = r.entries
        /\ call' = [op |-> "admit", hpkp_new |-> hpkp_new, excl |-> excl,
                    curtime |-> now, pre |-> entries, retval |-> r.retval]
        /\ UNCHANGED <<mutex, thread, now, file, saved>>

\* if (retval < 0) __wget_hpkp_free(hpkp, 1): the number of times the caller
\* frees its candidate
CallerFrees(retval) == IF retval < 0 THEN 1 ELSE 0

\* wget_hpkp_db_add(hpkp_db, host, max_age, include_subdomains, b64_pins)
wget_hpkp_db_add(host, max_age, include_subdomains, b64_pins) ==
    LET cur_time == now
        hpkp == PutAll(wget_hpkp_new(host, cur_time, max_age, include_subdomains), b64_pins)
        r == __wget_hpkp_db_add(entries, hpkp, 0, now)
    IN  /\ call = Idle
        /\ entries' = r.entries
        /\ call' = [op |-> "add", hpkp_new |-> hpkp, excl |-> 0, b64_pins |-> b64_pins,
                    curtime |-> now, pre |-> entries, retval |-> r.retval,
                    freed |-> CallerFrees(r.retval)]
        /\ UNCHANGED <<mutex, thread, now, file, saved>>

\* the clock advances between calls
Tick ==
    /\ call = Idle
    /\ now < MaxTime
    /\ now' = now + 1
    /\ UNCHANGED <<mutex, thread, entries, call, file, saved>>

\* the caller has taken the result of the call
Return ==
    /\ call # Idle
    /\ call' = Idle
    /\ UNCHANGED <<mutex, thread, entries, now, file, saved>>

AdmitStep == call = Idle /\ \E hpkp_new \in Candidates, excl \in {0, 1} : Admit(hpkp_new, excl)

PinLists == ListsUpTo(MaxList)

AddStep ==
    /\ call = Idle
    /\ \E max_age \in MaxAges, include_subdomains \in {0, 1}, b64_pins \in PinLists :
          wget_hpkp_db_add("a", max_age, include_subdomains, b64_pins)

Next == AdmitStep \/ AddStep \/ Tick \/ Return

Spec == Init /\ [][Next]_vars

(***************************************************************************)
(* The file.  A file is a sequence of lines; a line is kept as the tokens  *)
(* the reader's scanners see in it.  A number token is written by "%lu":   *)
(* a negative time_t comes out as the value plus 2^64, kept here as the    *)
(* pair (wrap, low) that stands for low + wrap * 2^64.                     *)
(***************************************************************************)
\* a line that starts with '#'
CommentLine == [kind |-> "comment"]

\* the line "version 1"
VersionLine == [kind |-> "version", text |-> "version 1"]

\* printf("%lu") of a time_t or of a count
FormatUlong(x) == [digits |-> TRUE, wrap |-> IF x < 0 THEN 1 ELSE 0, low |-> x]

\* strtoul of the digits, stored through the (unsigned long *) cast of a
\* time_t: a value of 2^63 or more reads back negative
__parse_number_unsigned(tok) == [ok |-> tok.digits, out |-> tok.low]

\* a digit, and no more than 1
__parse_digit(d) == [ok |-> d \in 0..9, out |-> d]

\* wget_iri_parse: the host is a literal IP address
IsIpAddress(host) == host = "1.2.3.4"

\* the mutant: created and max_age are written in each other's place
Mut_HostLine(url, hpkp) ==
    [kind |-> "host", host |-> url,
     created |-> FormatUlong(hpkp.max_age), max_age |-> FormatUlong(hpkp.created),
     include_subdomains |-> hpkp.include_subdomains,
     num_pins |-> FormatUlong(wget_vector_size(hpkp.pins))]

\* fprintf(fp, "%s\t%lu\t%lu\t%u\t%u\n", url, created, max_age, include_subdomains, num_pins)
HostLine(url, hpkp) ==
    [kind |-> "host", host |-> url,
     created |-> FormatUlong(hpkp.created), max_age |-> FormatUlong(hpkp.max_age),
     include_subdomains |-> hpkp.include_subdomains,
     num_pins |-> FormatUlong(wget_vector_size(hpkp.pins))]

\* fprintf(fp, "sha-256\t%s\n", b64_hash)
__vector_browse_cb(hash) ==
    [kind |-> "pin", magic |-> "sha-256", b64 |-> wget_base64_encode_alloc(hash)]

\* the sequences that list each element of S once
RECURSIVE Perms(_)
Perms(S) ==
    IF S = {} THEN {<<>>}
    ELSE UNION {{<<x>> \o q : q \in Perms(S \ {x})} : x \in S}

\* the elements of a vector, in the order pinorder gives them
VectorSeq(v, pinorder) == SelectSeq(pinorder, LAMBDA x : BagIn(x, v))

RECURSIVE PinLines(_)
PinLines(hashes) ==
    IF hashes = <<>> THEN <<>>
    ELSE <<__vector_browse_cb(Head(hashes))>> \o PinLines(Tail(hashes))

\* the mutant: the records are counted, not their pins
Mut_hashtable_browse_cb(bctx, key, hpkp, pinorder) ==
    [retval |-> 0,
     fp |-> bctx.fp \o <<HostLine(key, hpkp)>> \o PinLines(VectorSeq(hpkp.pins, pinorder)),
     written_pins |-> bctx.written_pins + 1]

\* writes the record of one entry and counts its pins; -1 for an entry without pins
__hashtable_browse_cb(bctx, key, hpkp, pinorder) ==
    LET num_pins == wget_vector_size(hpkp.pins)
    IN  IF num_pins > 0
        THEN [retval |-> 0,
              fp |-> bctx.fp \o <<HostLine(key, hpkp)>>
                       \o PinLines(VectorSeq(hpkp.pins, pinorder)),
              written_pins |-> bctx.written_pins + num_pins]
        ELSE [retval |-> -1, fp |-> bctx.fp, written_pins |-> bctx.written_pins]

\* wget_hashmap_browse in the order the map happens to give, up to the first
\* entry for which the callback does not return 0
RECURSIVE wget_hashmap_browse(_, _, _, _)
wget_hashmap_browse(db, order, bctx, pinorder) ==
    IF order = <<>> THEN bctx
    ELSE LET r == __hashtable_browse_cb(bctx, Head(order), db[Head(order)], pinorder)
         IN  IF r.retval # 0 THEN r
             ELSE wget_hashmap_browse(db, Tail(order), r, pinorder)

\* the three comment lines and the version line
FileHeader == <<CommentLine, CommentLine, CommentLine, VersionLine>>

\* what is at the path, if it is neither a regular file nor a link to one
NotRegular == [kind |-> "other"]

\* the mutant: the file of an empty store is left where it is
Mut_SaveResult(db, f, order, pinorder, fopen_ok) ==
    IF f.kind # "absent" /\ f.kind # "regular"
    THEN [file |-> f, retval |-> 0, path |-> "not_regular"]
    ELSE IF DOMAIN db = {}
    THEN [file |-> f, retval |-> 0, path |-> "empty"]
    ELSE IF ~fopen_ok
    THEN [file |-> f, retval |-> WGET_HPKP_ERROR_FILE_OPEN, path |-> "open_failed"]
    ELSE LET bctx == wget_hashmap_browse(db, order,
                         [retval |-> 0, fp |-> FileHeader, written_pins |-> 0], pinorder)
         IN  [file |-> [kind |-> "regular", lines |-> bctx.fp],
              retval |-> bctx.written_pins, path |-> "written"]

\* the body of wget_hpkp_db_save: the file it leaves and the value it returns.
\* stat() follows links, so a link to a regular file counts as one.
SaveResult(db, f, order, pinorder, fopen_ok) ==
    IF f.kind # "absent" /\ f.kind # "regular"
    THEN \* goto end: return bctx.written_pins, which is still 0
         [file |-> f, retval |-> 0, path |-> "not_regular"]
    ELSE IF DOMAIN db = {}
    THEN \* no entries: the file, if there is one, is removed
         [file |-> NoFile, retval |-> 0, path |-> "empty"]
    ELSE IF ~fopen_ok
    THEN [file |-> f, retval |-> WGET_HPKP_ERROR_FILE_OPEN, path |-> "open_failed"]
    ELSE LET bctx == wget_hashmap_browse(db, order,
                         [retval |-> 0, fp |-> FileHeader, written_pins |-> 0], pinorder)
         IN  [file |-> [kind |-> "regular", lines |-> bctx.fp],
              retval |-> bctx.written_pins, path |-> "written"]

\* wget_hpkp_db_save(filename, hpkp_db)
wget_hpkp_db_save(order, pinorder) ==
    /\ call = Idle
    /\ \E fopen_ok \in BOOLEAN :
          LET r == SaveResult(entries, file, order, pinorder, fopen_ok)
          IN  /\ file' = r.file
              /\ call' = [op |-> "save", pre |-> entries, target |-> file.kind,
                          path |-> r.path, retval |-> r.retval]
              /\ saved' = IF r.path \in {"empty", "written"}
                          THEN [valid |-> TRUE, store |-> entries]
                          ELSE saved
    /\ UNCHANGED <<mutex, thread, entries, now>>

\* num_pins is an unsigned int and is stored through an (unsigned long *): the
\* store writes four bytes past it.  Where the compiler has put
\* include_subdomains in those bytes (overlap), the flag parsed just before is
\* overwritten with the upper half of the count, which is 0; where it has put
\* nothing there that is read again, the flag stays.
StoreThroughCast(include_subdomains, overlap) ==
    IF overlap THEN 0 ELSE include_subdomains

\* the host line parsed: the host, three numbers and a digit
__wget_hpkp_parse_host_line(line, overlap) ==
    IF line.kind # "host" THEN [retval |-> -1]
    ELSE LET created == __parse_number_unsigned(line.created)
             max_age == __parse_number_unsigned(line.max_age)
             include_subdomains == __parse_digit(line.include_subdomains)
             num_pins == __parse_number_unsigned(line.num_pins)
         IN  IF /\ ~IsIpAddress(line.host)
                /\ created.ok /\ max_age.ok
                /\ include_subdomains.ok /\ ~(include_subdomains.out > 1)
                /\ num_pins.ok
                /\ num_pins.out > 0
             THEN [retval |-> 0, host |-> line.host, created |-> created.out,
                   max_age |-> max_age.out,
                   include_subdomains |-> StoreThroughCast(include_subdomains.out, overlap),
                   num_pins |-> num_pins.out]
             ELSE [retval |-> -1]

\* the mutant: the name of the hash is not looked at
Mut_parse_pin_line(line) ==
    IF line.kind = "pin"
    THEN [retval |-> 0, b64_pin |-> line.b64]
    ELSE [retval |-> -1]

\* the pin line parsed: two tokens, the first of them "sha-256"
__wget_hpkp_parse_pin_line(line) ==
    IF line.kind = "pin" /\ line.magic = "sha-256"
    THEN [retval |-> 0, b64_pin |-> line.b64]
    ELSE [retval |-> -1]

\* the loop over the num_pins lines that follow a host line
RECURSIVE ReadPins(_, _, _, _)
ReadPins(lines, i, left, hpkp) ==
    IF left = 0 THEN [retval |-> 0, hpkp |-> hpkp, next |-> i]
    ELSE IF i > Len(lines) THEN [retval |-> WGET_HPKP_ERROR, hpkp |-> hpkp, next |-> i]
    ELSE LET pin == __wget_hpkp_parse_pin_line(lines[i])
         IN  IF pin.retval = -1 THEN [retval |-> WGET_HPKP_ERROR, hpkp |-> hpkp, next |-> i]
             ELSE ReadPins(lines, i + 1, left - 1,
                           __wget_hpkp_db_put_base64_spki(hpkp, pin.b64_pin))

\* the mutant: the records of a file are admitted like those of a server
Mut_AdmitRecord(db, hpkp, curtime) == __wget_hpkp_db_add(db, hpkp, 0, curtime)

\* switch (__wget_hpkp_db_add(hpkp_db, hpkp, 1))
AdmitRecord(db, hpkp, curtime) == __wget_hpkp_db_add(db, hpkp, 1, curtime)

\* the mutant: a record that is not admitted ends the load with its outcome
Mut_SwitchOutcome(admitted) ==
    IF admitted = WGET_HPKP_OK
    THEN [retval |-> 0, should_continue |-> 1, freed |-> 0]
    ELSE [retval |-> admitted, should_continue |-> 0, freed |-> 1]

\* the cases of the switch on the outcome of the admission: each logs, all but
\* OK free the candidate (freed counts the calls of __wget_hpkp_free), none
\* touches retval (0 since the last line parsed) or should_continue
SwitchOutcome(admitted) ==
    [retval |-> 0, should_continue |-> 1,
     freed |-> IF admitted = WGET_HPKP_OK THEN 0 ELSE 1]

\* what wget_hpkp_db_load leaves: the map, the outcome of each record that
\* came to the admission, and the candidates built with wget_hpkp_new that
\* were neither put into the map nor freed when the function returned
Loaded(db, retval, log, pending) ==
    [entries |-> db, log |-> log, pending |-> pending,
     retval |-> IF retval = 0 THEN WGET_HPKP_OK ELSE retval]

\* the do-while loop of wget_hpkp_db_load, from line i of the file on
RECURSIVE LoadLoop(_, _, _, _, _, _, _)
LoadLoop(lines, i, db, version, log, curtime, overlap) ==
    IF i > Len(lines) THEN Loaded(db, 0, log, <<>>)
    ELSE IF lines[i].kind = "comment"
    THEN LoadLoop(lines, i + 1, db, version, log, curtime, overlap)
    ELSE IF version = 0
    THEN IF lines[i] # VersionLine
         THEN Loaded(db, WGET_HPKP_ERROR, log, <<>>)
         ELSE LoadLoop(lines, i + 1, db, 1, log, curtime, overlap)
    ELSE LET host == __wget_hpkp_parse_host_line(lines[i], overlap)
         IN  IF host.retval = -1 THEN Loaded(db, WGET_HPKP_ERROR, log, <<>>)
             ELSE LET pins == ReadPins(lines, i + 1, host.num_pins,
                                  wget_hpkp_new(host.host, host.created, host.max_age,
                                                host.include_subdomains))
                  IN  IF pins.retval # 0
                      THEN Loaded(db, WGET_HPKP_ERROR, log, <<pins.hpkp>>)
                      ELSE LET r == AdmitRecord(db, pins.hpkp, curtime)
                               sw == SwitchOutcome(r.retval)
                               done == Append(log, [hpkp_new |-> pins.hpkp,
                                                    retval |-> r.retval,
                                                    freed |-> sw.freed])
                           IN  IF sw.should_continue = 0
                               THEN Loaded(r.entries, sw.retval, done, <<>>)
                               ELSE LoadLoop(lines, pins.next, r.entries, version,
                                             done, curtime, overlap)

\* the lines fopen and wget_getline give: those of a regular file, none of a
\* directory that fopen agrees to open
FileLines(f) == IF f.kind = "regular" THEN f.lines ELSE <<>>

\* wget_hpkp_db_load(filename, hpkp_db)
wget_hpkp_db_load ==
    /\ call = Idle
    /\ \E fopen_ok \in BOOLEAN, overlap \in BOOLEAN :
          /\ file.kind = "absent" => ~fopen_ok
          /\ file.kind = "regular" => fopen_ok
          /\ IF ~fopen_ok
             THEN /\ call' = [op |-> "load", pre |-> entries, curtime |-> now,
                              log |-> <<>>, overlap |-> overlap, pending |-> <<>>,
                              retval |-> WGET_HPKP_ERROR_FILE_OPEN]
                  /\ UNCHANGED entries
             ELSE LET r == LoadLoop(FileLines(file), 1, entries, 0, <<>>, now, overlap)
                  IN  /\ entries' = r.entries
                      /\ call' = [op |-> "load", pre |-> entries, curtime |-> now,
                                  log |-> r.log, overlap |-> overlap,
                                  pending |-> r.pending, retval |-> r.retval]
    /\ UNCHANGED <<mutex, thread, now, file, saved>>

\* wget_hpkp_db_deinit and wget_hpkp_db_init: a fresh, empty database
Reinit ==
    /\ call = Idle
    /\ DOMAIN entries # {}
    /\ entries' = <<>>
    /\ UNCHANGED <<mutex, thread, now, call, file, saved>>

(***************************************************************************)
(* The files somebody else may leave at the path: a header and up to two   *)
(* records, well formed or not.                                            *)
(***************************************************************************)
Record(host, created, max_age, include_subdomains, hashes) ==
    <<[kind |-> "host", host |-> host, created |-> created, max_age |-> max_age,
       include_subdomains |-> include_subdomains,
       num_pins |-> FormatUlong(Len(hashes))]>> \o PinLines(hashes)

\* 18446744073709551615, the largest unsigned long: -1 as a time_t
UlongMax == [digits |-> TRUE, wrap |-> 1, low |-> -1]

\* a token that is no number: a sign, a leading zero, a letter
BadNumber == [digits |-> FALSE, wrap |-> 0, low |-> 0]

GoodRecords ==
    {Record(h, FormatUlong(0), FormatUlong(1), 0, <<"A", "B">>) : h \in {"a", "b"}}
    \cup {Record("a", FormatUlong(1), FormatUlong(2), 1, <<"A", "C">>),
          Record("a", FormatUlong(1), FormatUlong(0), 0, <<"A", "B">>),
          Record("b", FormatUlong(0), FormatUlong(2), 0, <<"A", "A">>),
          Record("b", FormatUlong(0), UlongMax, 1, <<"B", "C">>)}

BadRecords ==
    {Record("1.2.3.4", FormatUlong(1), FormatUlong(2), 0, <<"A", "B">>),
     Record("b", BadNumber, FormatUlong(2), 0, <<"A", "B">>),
     <<[kind |-> "host", host |-> "b", created |-> FormatUlong(1), max_age |-> FormatUlong(2),
        include_subdomains |-> 0, num_pins |-> FormatUlong(2)],
       __vector_browse_cb("A"),
       [kind |-> "pin", magic |-> "sha-1", b64 |-> wget_base64_encode_alloc("B")]>>,
     \* no pins announced
     Record("b", FormatUlong(1), FormatUlong(2), 0, <<>>),
     \* two pins announced, one given
     <<[kind |-> "host", host |-> "b", created |-> FormatUlong(1), max_age |-> FormatUlong(2),
        include_subdomains |-> 0, num_pins |-> FormatUlong(2)],
       __vector_browse_cb("A")>>}

Records == GoodRecords \cup BadRecords

FileContents ==
    {<<CommentLine, VersionLine>> \o r1 \o r2 : r1, r2 \in Records \cup {<<>>}}
    \cup {<<VersionLine>> \o r : r \in GoodRecords}
    \cup {<<[kind |-> "version", text |-> "version 2"]>> \o r : r \in GoodRecords}
    \cup {r : r \in GoodRecords}

\* somebody puts a file at the path
Write(lines) ==
    /\ call = Idle
    /\ file = NoFile
    /\ file' = [kind |-> "regular", lines |-> lines]
    /\ saved' = NotSaved
    /\ UNCHANGED <<mutex, thread, entries, now, call>>

\* somebody makes a directory at the path
Mkdir ==
    /\ call = Idle
    /\ file = NoFile
    /\ file' = NotRegular
    /\ saved' = NotSaved
    /\ UNCHANGED <<mutex, thread, entries, now, call>>

\* somebody removes the file
Unlink ==
    /\ call = Idle
    /\ file # NoFile
    /\ file' = NoFile
    /\ saved' = NotSaved
    /\ UNCHANGED <<mutex, thread, entries, now, call>>

\* wget_hpkp_db_add with arguments it takes and the reader of the file refuses:
\* a literal IP address as the host
OddArguments == {<<"1.2.3.4", 1>>}

AddOddStep ==
    /\ call = Idle
    /\ \E arg \in OddArguments :
          wget_hpkp_db_add(arg[1], MaxAge, arg[2],
              <<wget_base64_encode_alloc("B"), wget_base64_encode_alloc("C")>>)

\* the orders in which a vector gives its pins: that of insertion is not kept
\* by the model, so two opposite ones are tried
PinOrders == {<<"A", "B", "C">>, <<"C", "B", "A">>}

SaveStep ==
    /\ call = Idle
    /\ \E order \in Perms(DOMAIN entries), pinorder \in PinOrders :
          wget_hpkp_db_save(order, pinorder)

WriteStep == file = NoFile /\ \E lines \in FileContents : Write(lines)

NextFile ==
    \/ WriteStep
    \/ Mkdir
    \/ Unlink
    \/ wget_hpkp_db_load
    \/ SaveStep
    \/ Reinit
    \/ AddOddStep
    \/ Tick
    \/ Return

SpecFile == Init /\ [][NextFile]_vars

(***************************************************************************)
(* The store under the calls that fill it: wget_hpkp_db_add with any       *)
(* signed max_age and with pins given once or twice, and wget_hpkp_db_load *)
(* of a file of one record.                                                *)
(***************************************************************************)
\* the pin lists handed to wget_hpkp_db_add here
SomePinLists ==
    {<<>>,
     <<wget_base64_encode_alloc("A"), wget_base64_encode_alloc("A")>>,
     <<wget_base64_encode_alloc("A"), wget_base64_encode_alloc("B")>>,
     <<wget_base64_encode_alloc("A"), wget_base64_encode_alloc("C"),
       wget_base64_encode_alloc("A")>>}

AddSignedStep ==
    /\ call = Idle
    /\ \E max_age \in MaxAges, b64_pins \in SomePinLists :
          wget_hpkp_db_add("a", max_age, 1, b64_pins)

WriteRecordStep ==
    /\ file = NoFile
    /\ \E r \in GoodRecords : Write(<<VersionLine>> \o r)

NextStore ==
    \/ AddSignedStep
    \/ WriteRecordStep
    \/ Unlink
    \/ wget_hpkp_db_load
    \/ Reinit
    \/ Tick
    \/ Return

SpecStore == Init /\ [][NextStore]_vars

(***************************************************************************)
(* Threads.  Two threads call wget_hpkp_db_add for the same host and a     *)
(* third calls wget_hpkp_db_save, on a store that is empty or holds one    *)
(* entry; when all have returned the main thread calls                     *)
(* wget_hpkp_db_deinit.  A call is a sequence of steps, one for each       *)
(* access to the map, to the mutex or to an entry; the steps of different  *)
(* threads interleave in any order.                                        *)
(***************************************************************************)
\* the entry the store may hold when the threads start
Resident == [wget_hpkp_new("a", 0, MaxAge, 0) EXCEPT !.pins = SetToBag({"A", "B"})]

InitThreads ==
    /\ entries \in {<<>>, wget_hashmap_put_noalloc(<<>>, Resident.host, Resident)}
    /\ now = 0
    /\ call = Idle
    /\ file = NoFile
    /\ saved = NotSaved
    /\ mutex = Unlocked
    /\ thread = [t \in AllThreads |-> NotStarted]

\* what the adders pass to wget_hpkp_db_add
ThreadMaxAges == {0, MaxAge}

ThreadPinLists ==
    {<<wget_base64_encode_alloc("A"), wget_base64_encode_alloc("B")>>,
     <<wget_base64_encode_alloc("A"), wget_base64_encode_alloc("C")>>}

\* thread t goes on as r
Goes(t, r) == thread' = [thread EXCEPT ![t] = r]

\* wget_hpkp_db_add up to the call of __wget_hpkp_db_add: the candidate is built
AddBegin(t, max_age, b64_pins) ==
    /\ thread[t].pc = "idle"
    /\ Goes(t, [thread[t] EXCEPT
                  !.pc = "admit",
                  !.hpkp_new = PutAll(wget_hpkp_new("a", now, max_age, 0), b64_pins)])
    /\ UNCHANGED <<entries, now, call, file, saved, mutex>>

\* curtime = time(NULL) and the expiry check
AddExpiry(t) ==
    /\ thread[t].pc = "admit"
    /\ Goes(t, IF Expired(thread[t].hpkp_new, now)
               THEN [thread[t] EXCEPT !.pc = "done", !.retval = WGET_HPKP_ENTRY_EXPIRED]
               ELSE [thread[t] EXCEPT !.pc = "lookup"])
    /\ UNCHANGED <<entries, now, call, file, saved, mutex>>

\* hpkp = wget_hashmap_get(hpkp_db->entries, hpkp_new->host), the mutex not held
AddLookup(t) ==
    /\ thread[t].pc = "lookup"
    /\ Goes(t, [thread[t] EXCEPT
                  !.pc = "decide",
                  !.hpkp = IF wget_hashmap_contains(entries, thread[t].hpkp_new.host)
                           THEN [found |-> TRUE, val |-> entries[thread[t].hpkp_new.host],
                                 dangling |-> FALSE]
                           ELSE Null])
    /\ UNCHANGED <<entries, now, call, file, saved, mutex>>

\* the mutant: the candidate replaces the entry whatever their creation times
Mut_ShouldReplace(hpkp, hpkp_new) ==
    \/ hpkp.include_subdomains # hpkp_new.include_subdomains
    \/ hpkp.max_age # hpkp_new.max_age
    \/ __wget_hpkp_compare_spkis(hpkp, hpkp_new)

\* the condition of the update branch, read from the entry hpkp points to
ShouldReplace(hpkp, hpkp_new) == Update(<<>>, hpkp, hpkp_new).retval = WGET_HPKP_OK

\* the chain of branches of __wget_hpkp_db_add, up to the lock.  Where the entry
\* hpkp points to has been destroyed by another thread since the lookup, the
\* comparison reads freed memory and may come out either way.
AddDecide(t) ==
    LET me == thread[t]
    IN  /\ me.pc = "decide"
        /\ IF ~me.hpkp.found /\ EnoughPins(me.hpkp_new)
           THEN Goes(t, [me EXCEPT !.pc = "lock", !.op = "put", !.retval = WGET_HPKP_OK])
           ELSE IF me.hpkp.found /\ EnoughPins(me.hpkp_new)
           THEN \E replace \in BOOLEAN :
                   /\ ~me.hpkp.dangling => (replace = ShouldReplace(me.hpkp.val, me.hpkp_new))
                   /\ Goes(t, IF replace
                              THEN [me EXCEPT !.pc = "lock", !.op = "put",
                                              !.retval = WGET_HPKP_OK,
                                              !.freed = me.hpkp.dangling]
                              ELSE [me EXCEPT !.pc = "done",
                                              !.retval = WGET_HPKP_ENTRY_EXISTS,
                                              !.freed = me.hpkp.dangling])
           ELSE IF me.hpkp.found /\ DeleteRequested(me.hpkp_new)
           THEN Goes(t, [me EXCEPT !.pc = "lock", !.op = "remove",
                                   !.retval = WGET_HPKP_WAS_DELETED])
           ELSE IF wget_vector_size(me.hpkp_new.pins) < 2
           THEN Goes(t, [me EXCEPT !.pc = "done", !.retval = WGET_HPKP_NOT_ENOUGH_PINS])
           ELSE Goes(t, [me EXCEPT !.pc = "done", !.retval = WGET_HPKP_ERROR])
        /\ UNCHANGED <<entries, now, call, file, saved, mutex>>

\* the mutant: the map is written without waiting for the mutex
Mut_AddLock(t) ==
    /\ thread[t].pc = "lock"
    /\ Goes(t, [thread[t] EXCEPT !.pc = "mutate"])
    /\ UNCHANGED <<entries, now, call, file, saved, mutex>>

\* wget_thread_mutex_lock(&hpkp_db->mutex) before the map is written
AddLock(t) ==
    /\ thread[t].pc = "lock"
    /\ mutex = Unlocked
    /\ mutex' = t
    /\ Goes(t, [thread[t] EXCEPT !.pc = "mutate"])
    /\ UNCHANGED <<entries, now, call, file, saved>>

\* the pointers of the other threads to the entry of a host, which the map has
\* just destroyed, dangle
Destroyed(t, host, r) ==
    [u \in AllThreads |->
        IF u = t THEN r
        ELSE IF /\ thread[u].hpkp.found
                /\ thread[u].hpkp.val.host = host
                /\ thread[u].pc \in {"decide", "lock", "mutate"}
        THEN [thread[u] EXCEPT !.hpkp.dangling = TRUE]
        ELSE thread[u]]

\* wget_hashmap_put_noalloc or wget_hashmap_remove, the mutex held.  The key of
\* the removal is read from the entry hpkp points to: if that entry has been
\* destroyed, the key is whatever the freed memory holds, the host or not.
AddMutate(t) ==
    LET me == thread[t]
        host == me.hpkp_new.host
        before == IF wget_hashmap_contains(entries, host)
                  THEN [found |-> TRUE, val |-> entries[host], dangling |-> FALSE]
                  ELSE Null
        after == [me EXCEPT !.pc = "unlock", !.before = before]
    IN  /\ me.pc = "mutate"
        /\ IF me.op = "put"
           THEN /\ entries' = wget_hashmap_put_noalloc(entries, host, me.hpkp_new)
                /\ thread' = IF before.found THEN Destroyed(t, host, after)
                             ELSE [thread EXCEPT ![t] = after]
           ELSE \E samekey \in BOOLEAN :
                   /\ ~me.hpkp.dangling => samekey
                   /\ IF samekey /\ before.found
                      THEN /\ entries' = wget_hashmap_remove(entries, host)
                           /\ thread' = Destroyed(t, host,
                                            [after EXCEPT !.freed = me.hpkp.dangling])
                      ELSE /\ entries' = entries
                           /\ Goes(t, [after EXCEPT !.freed = me.hpkp.dangling])
        /\ UNCHANGED <<now, call, file, saved, mutex>>

\* the mutant: the mutex is not released after a removal
Mut_AddUnlock(t) ==
    /\ thread[t].pc = "unlock"
    /\ mutex' = IF thread[t].op = "remove" THEN mutex ELSE Unlocked
    /\ Goes(t, [thread[t] EXCEPT !.pc = "done"])
    /\ UNCHANGED <<entries, now, call, file, saved>>

\* wget_thread_mutex_unlock(&hpkp_db->mutex), and the return to the caller
AddUnlock(t) ==
    /\ thread[t].pc = "unlock"
    /\ mutex' = Unlocked
    /\ Goes(t, [thread[t] EXCEPT !.pc = "done"])
    /\ UNCHANGED <<entries, now, call, file, saved>>

\* wget_hpkp_db_save up to the lock: the map is empty and the file is removed,
\* or the file is opened and the header written
SaveBegin ==
    LET me == thread[Saver]
    IN  /\ me.pc = "idle"
        /\ IF DOMAIN entries = {}
           THEN /\ file' = NoFile
                /\ Goes(Saver, [me EXCEPT !.pc = "done", !.retval = 0])
           ELSE /\ file' = file
                /\ Goes(Saver, [me EXCEPT !.pc = "lock", !.fp = FileHeader])
        /\ UNCHANGED <<entries, now, call, saved, mutex>>

\* wget_thread_mutex_lock(&hpkp_db->mutex) before wget_hashmap_browse
SaveLock ==
    /\ thread[Saver].pc = "lock"
    /\ mutex = Unlocked
    /\ mutex' = Saver
    /\ Goes(Saver, [thread[Saver] EXCEPT !.pc = "browse", !.todo = DOMAIN entries,
                                         !.snapshot = entries])
    /\ UNCHANGED <<entries, now, call, file, saved>>

\* one call of __hashtable_browse_cb, for an entry not yet visited; an entry
\* that is no longer in the map is not visited
SaveBrowse(host, pinorder) ==
    LET me == thread[Saver]
        r == __hashtable_browse_cb([retval |-> 0, fp |-> me.fp,
                                    written_pins |-> me.written_pins],
                                   host, entries[host], pinorder)
    IN  /\ me.pc = "browse"
        /\ host \in me.todo
        /\ IF host \in DOMAIN entries
           THEN Goes(Saver, [me EXCEPT !.todo = @ \ {host}, !.fp = r.fp,
                                       !.written_pins = r.written_pins])
           ELSE Goes(Saver, [me EXCEPT !.todo = @ \ {host}])
        /\ UNCHANGED <<entries, now, call, file, saved, mutex>>

\* the end of the traversal: entries that came into the map meanwhile are
\* visited too
SaveBrowseEnd ==
    LET me == thread[Saver]
    IN  /\ me.pc = "browse"
        /\ me.todo = {}
        /\ Goes(Saver, [me EXCEPT !.pc = "unlock"])
        /\ UNCHANGED <<entries, now, call, file, saved, mutex>>

\* wget_thread_mutex_unlock(&hpkp_db->mutex), fclose and the return
SaveUnlock ==
    LET me == thread[Saver]
    IN  /\ me.pc = "unlock"
        /\ mutex' = Unlocked
        /\ file' = [kind |-> "regular", lines |-> me.fp]
        /\ Goes(Saver, [me EXCEPT !.pc = "done", !.retval = me.written_pins])
        /\ UNCHANGED <<entries, now, call, saved>>

\* every call has returned
AllReturned == \A t \in Adders \cup {Saver} : thread[t].pc = "done"

\* wget_hpkp_db_deinit: wget_hpkp_db_free locks, frees the map and unlocks
DeinitLock ==
    /\ thread[Main].pc = "idle"
    /\ AllReturned
    /\ mutex = Unlocked
    /\ mutex' = Main
    /\ entries' = <<>>
    /\ Goes(Main, [thread[Main] EXCEPT !.pc = "unlock"])
    /\ UNCHANGED <<now, call, file, saved>>

DeinitUnlock ==
    /\ thread[Main].pc = "unlock"
    /\ mutex' = Unlocked
    /\ Goes(Main, [thread[Main] EXCEPT !.pc = "done", !.retval = WGET_HPKP_OK])
    /\ UNCHANGED <<entries, now, call, file, saved>>

AddBeginStep ==
    \E t \in Adders, max_age \in ThreadMaxAges, b64_pins \in ThreadPinLists :
        AddBegin(t, max_age, b64_pins)

AddExpiryStep == \E t \in Adders : AddExpiry(t)

AddLookupStep == \E t \in Adders : AddLookup(t)

AddDecideStep == \E t \in Adders : AddDecide(t)

AddLockStep == \E t \in Adders : AddLock(t)

AddMutateStep == \E t \in Adders : AddMutate(t)

AddUnlockStep == \E t \in Adders : AddUnlock(t)

SaveBrowseStep == \E host \in Hosts : SaveBrowse(host, <<"A", "B", "C">>)

\* the clock advances while the threads run; it is read where a call starts
\* and where its candidate is checked for expiry
ThreadTick ==
    /\ \E t \in Adders : thread[t].pc \in {"idle", "admit"}
    /\ Tick

NextThreads ==
    \/ AddBeginStep
    \/ AddExpiryStep
    \/ AddLookupStep
    \/ AddDecideStep
    \/ AddLockStep
    \/ AddMutateStep
    \/ AddUnlockStep
    \/ SaveBegin
    \/ SaveLock
    \/ SaveBrowseStep
    \/ SaveBrowseEnd
    \/ SaveUnlock
    \/ DeinitLock
    \/ DeinitUnlock
    \/ ThreadTick

SpecThreads == InitThreads /\ [][NextThreads]_vars

\* the steps of one thread
StepOf(t) ==
    \/ /\ t \in Adders
       /\ \/ \E max_age \in ThreadMaxAges, b64_pins \in ThreadPinLists :
                AddBegin(t, max_age, b64_pins)
          \/ AddExpiry(t) \/ AddLookup(t) \/ AddDecide(t)
          \/ AddLock(t) \/ AddMutate(t) \/ AddUnlock(t)
    \/ /\ t = Saver
       /\ (SaveBegin \/ SaveLock \/ SaveBrowseStep \/ SaveBrowseEnd \/ SaveUnlock)
    \/ /\ t = Main
       /\ (DeinitLock \/ DeinitUnlock)

\* the scheduler lets every thread that can take a step take one in the end
SpecThreadsFair ==
    InitThreads /\ [][NextThreads]_vars /\ \A t \in AllThreads : WF_vars(StepOf(t))

(***************************************************************************)
(* The most recent call, for the properties below.                         *)
(***************************************************************************)
\* the call was an admission: __wget_hpkp_db_add, direct or by wget_hpkp_db_add
IsAdmission == call.op \in {"admit", "add"}

\* the entry the call found for the candidate's host (hpkp != NULL)
Known == call.hpkp_new.host \in DOMAIN call.pre

Existing == call.pre[call.hpkp_new.host]

NumPins == Cardinality(BagToSet(call.hpkp_new.pins))

\* the candidate is within its validity window when the call is made
NotExpired ==
    ~(call.hpkp_new.max_age > 0
        /\ call.hpkp_new.created + call.hpkp_new.max_age < call.curtime)

\* the store holds the candidate, field by field, under the candidate's host
CandidateResident ==
    /\ call.hpkp_new.host \in DOMAIN entries
    /\ LET e == entries[call.hpkp_new.host]
       IN  /\ BagToSet(e.pins) = BagToSet(call.hpkp_new.pins)
           /\ BagCardinality(e.pins) = Cardinality(BagToSet(e.pins))
           /\ e.created = call.hpkp_new.created
           /\ e.max_age = call.hpkp_new.max_age
           /\ e.include_subdomains = call.hpkp_new.include_subdomains

\* every host but the candidate's keeps its entry
OthersKept ==
    /\ DOMAIN entries \ {call.hpkp_new.host} = DOMAIN call.pre \ {call.hpkp_new.host}
    /\ \A h \in DOMAIN entries \ {call.hpkp_new.host} : entries[h] = call.pre[h]

CandidatePinsSubsetOfExisting ==
    BagToSet(call.hpkp_new.pins) \subseteq BagToSet(Existing.pins)

\* the existing entry's pins are all among the candidate's pins
ExistingPinsSubsetOfCandidate ==
    BagToSet(Existing.pins) \subseteq BagToSet(call.hpkp_new.pins)

\* the case of the update rule: non-exclusive, not expired, complete, host known
UpdateCase ==
    /\ IsAdmission /\ call.excl = 0
    /\ NotExpired
    /\ call.hpkp_new.max_age # 0 /\ NumPins >= 2
    /\ Known

FieldsDiffer ==
    \/ Existing.include_subdomains # call.hpkp_new.include_subdomains
    \/ Existing.max_age # call.hpkp_new.max_age

C3_Deletion ==
    (/\ IsAdmission /\ call.excl = 0
     /\ NotExpired
     /\ Known
     /\ (call.hpkp_new.max_age = 0 \/ NumPins = 0))
    => (/\ call.retval = WGET_HPKP_WAS_DELETED
        /\ call.hpkp_new.host \notin DOMAIN entries
        /\ OthersKept)

\* max_age = 0 with three pins deleted the entry
C3_Witness ==
    /\ IsAdmission /\ call.excl = 0 /\ Known
    /\ call.hpkp_new.max_age = 0 /\ NumPins = 3
    /\ call.retval = WGET_HPKP_WAS_DELETED
    /\ call.hpkp_new.host \notin DOMAIN entries

DistinctArgs == {call.b64_pins[i] : i \in DOMAIN call.b64_pins}

C7_MutationIffOutcome ==
    IsAdmission =>
        (entries # call.pre <=> call.retval \in {WGET_HPKP_OK, WGET_HPKP_WAS_DELETED})

\* a redundant re-add with a later created: ENTRY_EXISTS, created unchanged
C7_Witness ==
    /\ call.op = "add" /\ Known
    /\ Existing.created < call.hpkp_new.created
    /\ ~FieldsDiffer
    /\ BagToSet(Existing.pins) = BagToSet(call.hpkp_new.pins)
    /\ call.retval = WGET_HPKP_ENTRY_EXISTS
    /\ entries[call.hpkp_new.host].created = Existing.created

(***************************************************************************)
(* C8: when an admission returns OK for a host that had an entry, the      *)
(* entry afterwards is exactly the candidate (its pins and no others, its  *)
(* created, max_age and include_subdomains), and the old entry is no       *)
(* longer in the store.                                                    *)
(***************************************************************************)
C8_ReplaceExact ==
    (IsAdmission /\ Known /\ call.retval = WGET_HPKP_OK)
    => (/\ CandidateResident
        /\ \A h \in DOMAIN entries : h = call.hpkp_new.host => entries[h] # Existing
        /\ OthersKept)

\* {A,B} replaced by {A,C}: B is gone
C8_Witness ==
    /\ IsAdmission /\ Known /\ call.retval = WGET_HPKP_OK
    /\ BagToSet(Existing.pins) = {"A", "B"}
    /\ BagToSet(call.hpkp_new.pins) = {"A", "C"}
    /\ BagToSet(entries[call.hpkp_new.host].pins) = {"A", "C"}
    /\ entries[call.hpkp_new.host].created > Existing.created

\* record j of the loaded file was past its validity window
LogExpired(j) ==
    /\ call.log[j].hpkp_new.max_age > 0
    /\ call.log[j].hpkp_new.created + call.log[j].hpkp_new.max_age < call.curtime

(***************************************************************************)
(* C9: wget_hpkp_db_load never replaces or removes an entry: every host    *)
(* resident before the load keeps its entry, and once a record of the file *)
(* has been admitted for a host, every later record for that host that is  *)
(* not expired gets ENTRY_EXISTS and the admitted entry stays.             *)
(***************************************************************************)
C9_ExclusiveLoad ==
    call.op = "load" =>
        /\ \A h \in DOMAIN call.pre : h \in DOMAIN entries /\ entries[h] = call.pre[h]
        /\ \A i, j \in DOMAIN call.log :
             (/\ i < j
              /\ call.log[i].retval = WGET_HPKP_OK
              /\ call.log[j].hpkp_new.host = call.log[i].hpkp_new.host
              /\ ~LogExpired(j))
             => /\ call.log[j].retval = WGET_HPKP_ENTRY_EXISTS
                /\ entries[call.log[i].hpkp_new.host] = call.log[i].hpkp_new

\* two records for one host, the second newer and different: the first stays,
\* and so does the entry that was there before the load
C9_Witness ==
    /\ call.op = "load"
    /\ call.pre # <<>>
    /\ Len(call.log) = 2
    /\ call.log[1].retval = WGET_HPKP_OK
    /\ call.log[2].retval = WGET_HPKP_ENTRY_EXISTS
    /\ call.log[2].hpkp_new.host = call.log[1].hpkp_new.host
    /\ call.log[2].hpkp_new.created > call.log[1].hpkp_new.created
    /\ call.log[2].hpkp_new.pins # call.log[1].hpkp_new.pins
    /\ entries[call.log[1].hpkp_new.host] = call.log[1].hpkp_new

\* the file is what wget_hpkp_db_save made of the store saved.store, it is
\* loaded into an empty store, and no saved entry is expired at that time
RoundTripCase ==
    /\ call.op = "load"
    /\ call.pre = <<>>
    /\ saved.valid
    /\ \A h \in DOMAIN saved.store : ~Expired(saved.store[h], call.curtime)

(***************************************************************************)
(* C10, as claimed: saving any store whose entries are not expired at load *)
(* time and loading the file into an empty store returns OK and gives the  *)
(* same hosts with the same created, max_age, include_subdomains and pins. *)
(***************************************************************************)
C10_Original ==
    RoundTripCase => (call.retval = WGET_HPKP_OK /\ entries = saved.store)

(***************************************************************************)
(* C10, what is left of it: the same for any store that is not empty,      *)
(* whose host names are host names the reader of the file accepts (no      *)
(* literal IP addresses), whatever the order in which the entries and      *)
(* their pins were written, where the store of the pin count does not      *)
(* reach include_subdomains.  (An empty store leaves no file, and loading  *)
(* then returns WGET_HPKP_ERROR_FILE_OPEN; where the store reaches the     *)
(* flag, every entry comes back with include_subdomains 0.)                *)
(***************************************************************************)
C10_RoundTrip ==
    (/\ RoundTripCase
     /\ ~call.overlap
     /\ saved.store # <<>>
     /\ \A h \in DOMAIN saved.store : ~IsIpAddress(h))
    => (call.retval = WGET_HPKP_OK /\ entries = saved.store)

\* a store with entries for "a" and "b" came back from its file
C10_Witness ==
    /\ RoundTripCase
    /\ DOMAIN saved.store = {"a", "b"}
    /\ saved.store["b"].max_age < 0
    /\ saved.store["a"].include_subdomains = 1
    /\ call.retval = WGET_HPKP_OK
    /\ entries = saved.store
    /\ file.lines[5].host = "b"

\* the flag of an entry is lost on the way through the file
C10_FlagLost ==
    /\ RoundTripCase
    /\ call.overlap
    /\ call.retval = WGET_HPKP_OK
    /\ \E h \in DOMAIN saved.store :
          /\ h \in DOMAIN entries
          /\ saved.store[h].include_subdomains = 1
          /\ entries[h] = [saved.store[h] EXCEPT !.include_subdomains = 0]

(***************************************************************************)
(* Saving.                                                                 *)
(***************************************************************************)
\* the number of different pins of the entries of a store, added up
RECURSIVE SumOfPinSets(_, _)
SumOfPinSets(db, hosts) ==
    IF hosts = {} THEN 0
    ELSE LET h == CHOOSE x \in hosts : TRUE
         IN  Cardinality(BagToSet(db[h].pins)) + SumOfPinSets(db, hosts \ {h})

\* the call was a save that did not fail: the target was a regular file or
\* absent, and could be opened
SaveSucceeded ==
    /\ call.op = "save"
    /\ call.target \in {"absent", "regular"}
    /\ call.retval # WGET_HPKP_ERROR_FILE_OPEN

(***************************************************************************)
(* C11: a save that succeeds returns the number of pins in the store at    *)
(* the time of the call, the sizes of the pin sets of all resident entries *)
(* added up (0 for an empty store), and leaves the store as it was.        *)
(***************************************************************************)
C11_SaveCount ==
    SaveSucceeded =>
        /\ call.retval = SumOfPinSets(call.pre, DOMAIN call.pre)
        /\ entries = call.pre

\* a store of two entries was saved over a file: four pins
C11_Witness ==
    /\ SaveSucceeded
    /\ Cardinality(DOMAIN call.pre) = 2
    /\ call.target = "regular"
    /\ call.retval = 4
    /\ file.kind = "regular"

\* the records of a file: its host lines
HostLineCount(lines) == Cardinality({i \in 1..Len(lines) : lines[i].kind = "host"})

\* the call loaded, into an empty store, a regular file that has records, all
\* of them past their validity window
LoadedExpiredFile ==
    /\ call.op = "load"
    /\ call.pre = <<>>
    /\ file.kind = "regular"
    /\ call.retval = WGET_HPKP_OK
    /\ Len(call.log) > 0
    /\ Len(call.log) = HostLineCount(file.lines)
    /\ \A j \in 1..Len(call.log) : LogExpired(j)

(***************************************************************************)
(* C12: saving a store without entries removes the regular file at the     *)
(* path, writes nothing and returns 0, and creates nothing where there is  *)
(* no file.  After a file whose records are all expired has been loaded    *)
(* into an empty store, the store is empty and a save to the same path     *)
(* removes the file.                                                       *)
(***************************************************************************)
C12_EmptySave ==
    /\ (call.op = "save" /\ call.pre = <<>> /\ call.target \in {"absent", "regular"})
           => (file = NoFile /\ call.retval = 0 /\ entries = <<>>)
    /\ LoadedExpiredFile
           => /\ entries = <<>>
              /\ \A fopen_ok \in BOOLEAN :
                    LET r == SaveResult(entries, file, <<>>, <<>>, fopen_ok)
                    IN  r.file = NoFile /\ r.retval = 0

\* an empty store was saved where a regular file was: the file is gone
C12_Witness ==
    /\ call.op = "save"
    /\ call.pre = <<>>
    /\ call.target = "regular"
    /\ file = NoFile
    /\ call.retval = 0

\* a file of two expired records was loaded and left the store empty
C12_WitnessExpired ==
    /\ LoadedExpiredFile
    /\ Len(call.log) = 2
    /\ entries = <<>>

(***************************************************************************)
(* C13, as claimed: a save to a path that holds something that is neither  *)
(* a regular file nor a link returns the generic error, a negative value   *)
(* that cannot be taken for a save of zero pins, and writes and removes    *)
(* nothing.                                                                *)
(***************************************************************************)
C13_Original ==
    (call.op = "save" /\ call.target = "other")
        => /\ call.retval = WGET_HPKP_ERROR
           /\ call.retval < 0
           /\ file = NotRegular
           /\ entries = call.pre

\* a store with entries was saved to such a path: nothing is written and the
\* call returns 0, as a save of an empty store does
C13_ReturnsZero ==
    /\ call.op = "save"
    /\ call.target = "other"
    /\ call.pre # <<>>
    /\ call.retval = 0
    /\ file = NotRegular
    /\ entries = call.pre

(***************************************************************************)
(* Loading.  A file is well formed when its first line that is no comment  *)
(* is the version line and what follows are comments and records: a host   *)
(* line the scanners accept, followed by as many sha-256 lines as it       *)
(* announces.                                                              *)
(***************************************************************************)
GoodNumber(tok) == tok.digits

GoodHostLine(line) ==
    /\ line.kind = "host"
    /\ ~IsIpAddress(line.host)
    /\ GoodNumber(line.created) /\ GoodNumber(line.max_age) /\ GoodNumber(line.num_pins)
    /\ line.include_subdomains \in {0, 1}
    /\ line.num_pins.wrap = 0 /\ line.num_pins.low > 0

GoodPinLine(line) == line.kind = "pin" /\ line.magic = "sha-256"

WellFormed(lines) ==
    \E v \in 1..Len(lines) :
        /\ lines[v] = VersionLine
        /\ \A i \in 1..(v - 1) : lines[i].kind = "comment"
        /\ \A i \in (v + 1)..Len(lines) :
              \/ lines[i].kind = "comment"
              \/ /\ GoodHostLine(lines[i])
                 /\ i + lines[i].num_pins.low <= Len(lines)
                 /\ \A k \in (i + 1)..(i + lines[i].num_pins.low) : GoodPinLine(lines[k])
              \/ /\ GoodPinLine(lines[i])
                 /\ \E h \in (v + 1)..(i - 1) :
                       /\ lines[h].kind = "host"
                       /\ i <= h + lines[h].num_pins.low
                       /\ \A k \in (h + 1)..i : lines[k].kind = "pin"

\* the call loaded a well-formed regular file
LoadedWellFormed ==
    /\ call.op = "load"
    /\ file.kind = "regular"
    /\ WellFormed(file.lines)

\* the outcomes of an admission after which the loader goes on, by the claim
Recoverable ==
    {WGET_HPKP_ENTRY_EXPIRED, WGET_HPKP_NOT_ENOUGH_PINS, WGET_HPKP_ENTRY_EXISTS}

\* record j of the file can be admitted: in its validity window, max_age not
\* 0, two different pins, and no entry for its host when its turn comes
Admissible(j) ==
    LET c == call.log[j].hpkp_new
    IN  /\ ~LogExpired(j)
        /\ c.max_age # 0
        /\ Cardinality(BagToSet(c.pins)) >= 2
        /\ c.host \notin DOMAIN call.pre
        /\ \A i \in 1..(j - 1) :
              call.log[i].hpkp_new.host = c.host => call.log[i].retval # WGET_HPKP_OK

(***************************************************************************)
(* C14: when the load of a well-formed file meets a record that the        *)
(* admission rejects as expired, as having too few pins or as a repeated   *)
(* host, only that record is dropped: every record of the file is          *)
(* processed, every later record that can be admitted is admitted, as it   *)
(* is, and the load returns OK.                                            *)
(***************************************************************************)
C14_RecoverableRejections ==
    LoadedWellFormed =>
        /\ call.retval = WGET_HPKP_OK
        /\ Len(call.log) = HostLineCount(file.lines)
        /\ \A j \in 1..Len(call.log) :
              /\ call.log[j].retval \in Recoverable
                    => \A k \in (j + 1)..Len(call.log) :
                          Admissible(k) =>
                              /\ call.log[k].retval = WGET_HPKP_OK
                              /\ entries[call.log[k].hpkp_new.host] = call.log[k].hpkp_new
              /\ call.log[j].retval # WGET_HPKP_OK
                    => (\/ call.log[j].hpkp_new.host \notin DOMAIN entries
                        \/ \E i \in 1..Len(call.log) :
                              /\ call.log[i].retval = WGET_HPKP_OK
                              /\ entries[call.log[j].hpkp_new.host] = call.log[i].hpkp_new
                        \/ /\ call.log[j].hpkp_new.host \in DOMAIN call.pre
                           /\ entries[call.log[j].hpkp_new.host]
                                 = call.pre[call.log[j].hpkp_new.host])

\* a record with the same pin twice is rejected for too few pins, the record
\* after it is admitted and the load returns OK
C14_Witness ==
    /\ LoadedWellFormed
    /\ Len(call.log) = 2
    /\ call.log[1].retval = WGET_HPKP_NOT_ENOUGH_PINS
    /\ call.log[2].retval = WGET_HPKP_OK
    /\ entries[call.log[2].hpkp_new.host] = call.log[2].hpkp_new
    /\ call.log[1].hpkp_new.host \notin DOMAIN entries
    /\ call.retval = WGET_HPKP_OK

\* the same after an expired record and after a repeated host
C14_WitnessExpired ==
    /\ LoadedWellFormed
    /\ Len(call.log) = 2
    /\ call.log[1].retval = WGET_HPKP_ENTRY_EXPIRED
    /\ call.log[2].retval = WGET_HPKP_OK
    /\ call.retval = WGET_HPKP_OK

C14_WitnessExists ==
    /\ LoadedWellFormed
    /\ Len(call.log) = 2
    /\ call.log[1].retval = WGET_HPKP_ENTRY_EXISTS
    /\ call.log[2].retval = WGET_HPKP_OK
    /\ call.retval = WGET_HPKP_OK

\* the first n lines are comments only, or a well-formed file of whole records
CleanPrefix(lines, n) ==
    \/ \A i \in 1..n : lines[i].kind = "comment"
    \/ WellFormed(SubSeq(lines, 1, n))

\* the longest such prefix: the line after it is a bad line, or opens the
\* record that has one
LastClean(lines) ==
    CHOOSE n \in 0..Len(lines) :
        /\ CleanPrefix(lines, n)
        /\ \A m \in (n + 1)..Len(lines) : ~CleanPrefix(lines, m)

\* the index of the k-th host line among the first n lines
HostLineIndex(lines, n, k) ==
    CHOOSE i \in 1..n :
        /\ lines[i].kind = "host"
        /\ Cardinality({m \in 1..i : lines[m].kind = "host"}) = k

\* the call loaded a regular file with a malformed line
LoadedMalformed ==
    /\ call.op = "load"
    /\ file.kind = "regular"
    /\ LastClean(file.lines) < Len(file.lines)

(***************************************************************************)
(* C15: the load of a file with a malformed line stops at the first such   *)
(* line and returns an error.  The records before the record with the bad  *)
(* line are the only ones processed; the entries admitted from them, and   *)
(* the entries resident before the load, stay as they are, and nothing     *)
(* else enters the store.                                                  *)
(***************************************************************************)
C15_FormatErrorFatal ==
    LoadedMalformed =>
        LET n == LastClean(file.lines)
        IN  /\ call.retval = WGET_HPKP_ERROR
            /\ call.retval < 0
            /\ Len(call.log) = HostLineCount(SubSeq(file.lines, 1, n))
            /\ \A k \in 1..Len(call.log) :
                  /\ call.log[k].hpkp_new.host
                        = file.lines[HostLineIndex(file.lines, n, k)].host
                  /\ call.log[k].retval = WGET_HPKP_OK
                        => entries[call.log[k].hpkp_new.host] = call.log[k].hpkp_new
            /\ \A h \in DOMAIN call.pre : h \in DOMAIN entries /\ entries[h] = call.pre[h]
            /\ \A h \in DOMAIN entries :
                  \/ h \in DOMAIN call.pre
                  \/ \E k \in 1..Len(call.log) :
                        /\ call.log[k].retval = WGET_HPKP_OK
                        /\ call.log[k].hpkp_new.host = h

\* the second record names a hash that is not sha-256: the entry of the first
\* record stays and the load returns the error
C15_Witness ==
    /\ LoadedMalformed
    /\ call.pre = <<>>
    /\ Len(call.log) = 1
    /\ call.log[1].retval = WGET_HPKP_OK
    /\ DOMAIN entries = {call.log[1].hpkp_new.host}
    /\ \E i \in 1..Len(file.lines) :
          file.lines[i].kind = "pin" /\ file.lines[i].magic # "sha-256"
    /\ call.retval = WGET_HPKP_ERROR

\* the first record is the bad one and a good record follows it: nothing is
\* admitted
C15_WitnessAfter ==
    /\ LoadedMalformed
    /\ call.pre = <<>>
    /\ call.log = <<>>
    /\ HostLineCount(file.lines) = 2
    /\ GoodHostLine(file.lines[Len(file.lines) - 2])
    /\ entries = <<>>
    /\ call.retval = WGET_HPKP_ERROR

(***************************************************************************)
(* The entries of the store.                                               *)
(***************************************************************************)
\* no pin of the entry is there twice
PinsDistinct(hpkp) == \A p \in BagToSet(hpkp.pins) : CopiesIn(p, hpkp.pins) = 1

(***************************************************************************)
(* C16: after any sequence of wget_hpkp_db_init, wget_hpkp_db_add and      *)
(* wget_hpkp_db_load every resident entry has at least two pins, and no    *)
(* two of its pins are equal.                                              *)
(***************************************************************************)
C16_PinsInvariant ==
    \A h \in DOMAIN entries :
        /\ Cardinality(BagToSet(entries[h].pins)) >= 2
        /\ PinsDistinct(entries[h])

\* an entry was added from a list that gives one of its pins twice
C16_Witness ==
    /\ call.op = "add"
    /\ Len(call.b64_pins) = 3
    /\ call.retval = WGET_HPKP_OK
    /\ call.hpkp_new.host \in DOMAIN entries
    /\ entries[call.hpkp_new.host] = call.hpkp_new
    /\ BagCardinality(entries[call.hpkp_new.host].pins) = 2

\* a record that gives the same pin twice was read and not admitted
C16_WitnessLoad ==
    /\ call.op = "load"
    /\ Len(call.log) = 1
    /\ call.log[1].retval = WGET_HPKP_NOT_ENOUGH_PINS
    /\ BagCardinality(call.log[1].hpkp_new.pins) = 1

(***************************************************************************)
(* C17, as claimed: after any sequence of wget_hpkp_db_init,               *)
(* wget_hpkp_db_add with any signed max_age and wget_hpkp_db_load, every   *)
(* resident entry has max_age > 0 and had created + max_age >= now when it *)
(* was admitted.                                                           *)
(***************************************************************************)
C17_Original ==
    /\ \A h \in DOMAIN entries : entries[h].max_age > 0
    /\ (call.op = "add" /\ call.retval = WGET_HPKP_OK)
          => call.hpkp_new.created + call.hpkp_new.max_age >= call.curtime
    /\ call.op = "load"
          => \A j \in 1..Len(call.log) :
                call.log[j].retval = WGET_HPKP_OK
                  => call.log[j].hpkp_new.created + call.log[j].hpkp_new.max_age
                        >= call.curtime

\* wget_hpkp_db_add with max_age -1 returned OK and its entry is resident,
\* with a validity window that ended before the call
C17_NegativeResident ==
    /\ call.op = "add"
    /\ call.retval = WGET_HPKP_OK
    /\ call.hpkp_new.max_age < 0
    /\ entries[call.hpkp_new.host] = call.hpkp_new
    /\ call.hpkp_new.created + call.hpkp_new.max_age < call.curtime

\* what does hold: no resident entry has max_age 0, and one with a max_age
\* above 0 was within its window when it was admitted
C17_NonZeroMaxAge ==
    /\ \A h \in DOMAIN entries : entries[h].max_age # 0
    /\ (call.op = "add" /\ call.retval = WGET_HPKP_OK /\ call.hpkp_new.max_age > 0)
          => call.hpkp_new.created + call.hpkp_new.max_age >= call.curtime

(***************************************************************************)
(* Threads.                                                                *)
(***************************************************************************)
\* the save is between the lock and the unlock around wget_hashmap_browse
InTraversal == thread[Saver].pc \in {"browse", "unlock"}

\* the host lines of a file
HostLinesOf(lines) == {lines[i] : i \in {j \in 1..Len(lines) : lines[j].kind = "host"}}

(***************************************************************************)
(* C18: while wget_hpkp_db_save traverses the map, no insertion,           *)
(* replacement or removal by a concurrent wget_hpkp_db_add takes effect:   *)
(* from the lock to the unlock the map is what it was at the lock, and the *)
(* records written are those of the map at that one instant.               *)
(***************************************************************************)
C18_SaveExclusive ==
    /\ InTraversal => (mutex = Saver /\ entries = thread[Saver].snapshot)
    /\ (thread[Saver].pc \in {"unlock", "done"} /\ thread[Saver].fp # <<>>)
          => HostLinesOf(thread[Saver].fp)
                = {HostLine(h, thread[Saver].snapshot[h]) :
                      h \in DOMAIN thread[Saver].snapshot}

\* the save holds the mutex in mid-traversal while an adder that is about to
\* replace the entry waits for it
C18_Witness ==
    /\ thread[Saver].pc = "browse"
    /\ thread[Saver].todo # {}
    /\ \E t \in Adders : thread[t].pc = "lock" /\ thread[t].op = "put"
                         /\ thread[t].hpkp.found

\* thread t decided on a lookup that no longer showed the map as it was when
\* t wrote it
Stale(t) ==
    \/ thread[t].hpkp.found # thread[t].before.found
    \/ thread[t].hpkp.dangling
    \/ thread[t].hpkp.val # thread[t].before.val

(***************************************************************************)
(* C19: two concurrent calls of wget_hpkp_db_add for one host can both     *)
(* return OK and leave resident the candidate with the smaller created     *)
(* (the witness), because the lookup is made without the mutex: an entry   *)
(* is overwritten by a candidate that is not newer than it only by a       *)
(* thread whose lookup was stale when it wrote, never by a thread that     *)
(* wrote the map as it had seen it.                                        *)
(***************************************************************************)
C19_OlderWinsOnlyWhenStale ==
    \A t \in Adders :
        (/\ thread[t].pc \in {"unlock", "done"}
         /\ thread[t].op = "put"
         /\ thread[t].before.found
         /\ ~(thread[t].before.val.created < thread[t].hpkp_new.created))
        => Stale(t)

\* both calls have returned OK and the resident entry is the older candidate
C19_Witness ==
    \E t, u \in Adders :
        /\ thread[t].pc = "done" /\ thread[u].pc = "done"
        /\ thread[t].retval = WGET_HPKP_OK /\ thread[u].retval = WGET_HPKP_OK
        /\ thread[t].hpkp_new.created < thread[u].hpkp_new.created
        /\ "a" \in DOMAIN entries
        /\ entries["a"] = thread[t].hpkp_new
        /\ thread[t].before.found
        /\ thread[t].before.val = thread[u].hpkp_new

\* the mutex is held only between a lock and the unlock that follows it, is
\* not held by a thread that has returned, and is not asked for by the thread
\* that holds it
LockDiscipline ==
    /\ \A t \in AllThreads :
          thread[t].pc \in {"idle", "admit", "lookup", "decide", "lock", "done"}
              => mutex # t
    /\ mutex # Unlocked
          => /\ mutex \in AllThreads
             /\ thread[mutex].pc \in {"mutate", "browse", "unlock"}

(***************************************************************************)
(* C20: every operation that takes the mutex releases it on every path and *)
(* never asks for it while holding it, so the mutex is free when an        *)
(* operation returns, and concurrent calls of wget_hpkp_db_add and         *)
(* wget_hpkp_db_save all return.                                           *)
(***************************************************************************)
C20_LockAndProgress ==
    /\ []LockDiscipline
    /\ [](AllReturned => mutex \in {Unlocked, Main})
    /\ <>AllReturned
    /\ <>(thread[Main].pc = "done" /\ mutex = Unlocked)

\* all calls have returned, one that removed the entry, one that put an entry
\* and a save that wrote the file, and the mutex is free
C20_Witness ==
    /\ AllReturned
    /\ mutex = Unlocked
    /\ \E t, u \in Adders :
          /\ thread[t].op = "remove" /\ thread[t].retval = WGET_HPKP_WAS_DELETED
          /\ thread[u].op = "put" /\ thread[u].retval = WGET_HPKP_OK
    /\ thread[Saver].written_pins > 0
    /\ file.kind = "regular"

\* entry e is stale at time t
StaleAt(e, t) == e.created + e.max_age < t

\* a call of wget_hpkp_db_add for a host whose resident entry was stale
AddOnStale ==
    /\ call.op = "add"
    /\ call.hpkp_new.host \in DOMAIN call.pre
    /\ StaleAt(call.pre[call.hpkp_new.host], call.curtime)

\* the declaration differs from the entry in max_age, in the flag, or leaves
\* out one of the entry's pins
Differs(e, c) ==
    \/ e.max_age # c.max_age
    \/ e.include_subdomains # c.include_subdomains
    \/ ~(BagToSet(e.pins) \subseteq BagToSet(c.pins))

\* the statement as claimed: after any wget_hpkp_db_add for a host, the store
\* holds no stale entry for that host
C21_Original ==
    call.op = "add"
        => \/ call.hpkp_new.host \notin DOMAIN entries
           \/ ~StaleAt(entries[call.hpkp_new.host], now)

(***************************************************************************)
(* C21: a wget_hpkp_db_add for a host whose resident entry has gone stale  *)
(* removes the entry when the declaration has max_age 0 or no pins,        *)
(* replaces it by the candidate when the candidate has two distinct pins,  *)
(* is newer and differs from it in max_age, flag or pins, and otherwise    *)
(* (an identical declaration, or one with a single pin) leaves the stale   *)
(* entry resident.                                                         *)
(***************************************************************************)
C21_StalePurgedOnlyByChange ==
    AddOnStale =>
        LET c == call.hpkp_new
            h == c.host
            e == call.pre[h]
            n == Cardinality(BagToSet(c.pins))
        IN  IF c.max_age = 0 \/ n = 0
            THEN call.retval = WGET_HPKP_WAS_DELETED /\ h \notin DOMAIN entries
            ELSE IF n >= 2 /\ e.created < c.created /\ Differs(e, c)
            THEN call.retval = WGET_HPKP_OK /\ entries[h] = c
            ELSE /\ call.retval \in {WGET_HPKP_ENTRY_EXISTS, WGET_HPKP_NOT_ENOUGH_PINS}
                 /\ entries = call.pre
                 /\ StaleAt(entries[h], now)

\* the same max_age, flag and pins are declared again for a stale entry, with
\* a newer creation time, and the stale entry stays
C21_Witness ==
    /\ AddOnStale
    /\ call.pre[call.hpkp_new.host].max_age > 0
    /\ call.pre[call.hpkp_new.host].created < call.hpkp_new.created
    /\ ~Differs(call.pre[call.hpkp_new.host], call.hpkp_new)
    /\ BagToSet(call.pre[call.hpkp_new.host].pins) = BagToSet(call.hpkp_new.pins)
    /\ call.retval = WGET_HPKP_ENTRY_EXISTS
    /\ entries = call.pre

\* a stale entry is replaced by a fresh candidate that differs from it
C21_WitnessPurged ==
    /\ AddOnStale
    /\ call.pre[call.hpkp_new.host].max_age > 0
    /\ call.retval = WGET_HPKP_OK
    /\ ~StaleAt(entries[call.hpkp_new.host], now)

\* the statement as claimed: no call of wget_hpkp_db_add reads an entry that
\* another call has destroyed since the lookup
C22_Original == \A t \in Adders : ~thread[t].freed

\* C22: two calls for one host have returned; one of them replaced or removed
\* the entry between the other's lookup and its comparison or removal, and
\* the other read the destroyed entry
C22_UseAfterFree ==
    \E t, u \in Adders :
        /\ t # u
        /\ thread[t].pc = "done" /\ thread[u].pc = "done"
        /\ thread[t].freed
        /\ thread[t].hpkp.found /\ thread[t].hpkp.dangling
        /\ thread[u].before.found
        /\ thread[u].before.val = thread[t].hpkp.val
        /\ thread[u].retval \in {WGET_HPKP_OK, WGET_HPKP_WAS_DELETED}

\* a candidate that came to the admission is in the map and was not freed, or
\* is not the caller's any more because it was freed once
ResolvedOnce(hpkp_new, retval, freed) ==
    IF retval = WGET_HPKP_OK
    THEN /\ freed = 0
         /\ hpkp_new.host \in DOMAIN entries
         /\ entries[hpkp_new.host] = hpkp_new
    ELSE freed = 1

\* the statement as claimed: when wget_hpkp_db_add or wget_hpkp_db_load
\* returns, every candidate it built is resident or has been freed once
C23_Original ==
    /\ call.op = "add" => ResolvedOnce(call.hpkp_new, call.retval, call.freed)
    /\ call.op = "load"
          => /\ \A j \in DOMAIN call.log :
                   ResolvedOnce(call.log[j].hpkp_new, call.log[j].retval, call.log[j].freed)
             /\ call.pending = <<>>

\* C23: a load has stopped at a pin line that is missing or malformed, after
\* an earlier record was admitted, and the candidate built for the host line
\* before it is neither resident nor freed
C23_Leaked ==
    /\ call.op = "load"
    /\ call.retval = WGET_HPKP_ERROR
    /\ Len(call.pending) = 1
    /\ Len(call.log) = 1
    /\ call.log[1].retval = WGET_HPKP_OK
    /\ call.pending[1].host \notin DOMAIN entries

\* what holds of the candidates that reach the admission: each is resident
\* or was freed once
C23_AdmittedResolvedOnce ==
    /\ call.op = "add" => ResolvedOnce(call.hpkp_new, call.retval, call.freed)
    /\ call.op = "load"
          => /\ \A j \in DOMAIN call.log :
                   ResolvedOnce(call.log[j].hpkp_new, call.log[j].retval, call.log[j].freed)
             /\ call.pending # <<>> => call.retval = WGET_HPKP_ERROR

====
